---- MODULE Spec2Model ----
(***************************************************************************)
(* CheckMyGrade: a record store (students, courses, professors, logins)    *)
(* kept in memory by CheckMyGradeService and rewritten to one CSV file per *)
(* entity type by CSVRepo after every mutation, with passwords stored      *)
(* through SimpleCipher (XOR with a repeating key, then URL-safe base64).  *)
(*                                                                         *)
(* Representation.                                                         *)
(*   Text     a Python str: the sequence of its Unicode code points, so    *)
(*            <<57, 48, 46, 48>> is "90.0".                                *)
(*   PyVal    a Python value of a numeric field (marks, credits), tagged   *)
(*            by its type: None, int, float (finite, in thousandths),      *)
(*            float nan, float inf, str.                                   *)
(*   CsvFile  a CSV file as the csv module presents it: missing, not       *)
(*            decodable, or a header row and data rows of text cells.      *)
(***************************************************************************)
EXTENDS Integers, Sequences, FiniteSets

VARIABLES
    suite,          \* which part of the API the client of this run exercises
    students,       \* CheckMyGradeService.students
    courses,        \* CheckMyGradeService.courses
    professors,     \* CheckMyGradeService.professors
    logins,         \* CheckMyGradeService.logins
    students_csv,   \* the file STUDENTS_CSV
    courses_csv,    \* the file COURSES_CSV
    professors_csv, \* the file PROFESSORS_CSV
    login_csv,      \* the file LOGIN_CSV
    last,           \* the most recent call: operation, arguments, outcome
    pwset,          \* history: user_id -> the password most recently set
    active,         \* which service object the client calls: "A" or "B"
    other           \* the collections of the service object it does not call

vars == <<suite, students, courses, professors, logins, students_csv,
          courses_csv, professors_csv, login_csv, last, pwset, active, other>>

(***************************************************************************)
(* Generic helpers.                                                        *)
(***************************************************************************)
Range(f) == {f[i] : i \in DOMAIN f}

Reverse(s) == [i \in 1..Len(s) |-> s[Len(s) + 1 - i]]

Abs(i) == IF i < 0 THEN -i ELSE i

\* s with x put before position p (1-based); p = Len(s) + 1 appends.
InsertAt(s, p, x) == SubSeq(s, 1, p - 1) \o <<x>> \o SubSeq(s, p, Len(s))

\* All sequences over S of length 0..n.
SeqsUpTo(S, n) == UNION {[1..k -> S] : k \in 0..n}

(***************************************************************************)
(* Python values of the numeric fields.                                    *)
(***************************************************************************)
PyNone     == [k |-> "None",  n |-> 0, s |-> <<>>]
PyInt(i)   == [k |-> "int",   n |-> i, s |-> <<>>]
PyFloat(m) == [k |-> "float", n |-> m, s |-> <<>>]  \* the float m / 1000
PyNaN      == [k |-> "nan",   n |-> 0, s |-> <<>>]
PyInf      == [k |-> "inf",   n |-> 0, s |-> <<>>]
PyStr(t)   == [k |-> "str",   n |-> 0, s |-> t]

IsNumber(v) == v.k \in {"int", "float", "nan", "inf"}
IsFinite(v) == v.k \in {"int", "float"}

\* The value of a finite number in thousandths.
Milli(v) == IF v.k = "int" THEN v.n * 1000 ELSE v.n

(***************************************************************************)
(* str(v) and the parsers float(text), int(text), over the characters the  *)
(* model's inputs use: digits, sign, decimal point, letters (no exponent,  *)
(* underscore or white space occurs in any input).                         *)
(***************************************************************************)
IsDigit(c) == c \in 48..57

RECURSIVE DigitsOf(_)
DigitsOf(n) == IF n < 10 THEN <<48 + n>> ELSE DigitsOf(n \div 10) \o <<48 + (n % 10)>>

\* str(i) for an int i
IntToText(i) == IF i < 0 THEN <<45>> \o DigitsOf(-i) ELSE DigitsOf(i)

\* the fraction digits of repr(float): three digits, trailing zeros dropped,
\* at least one digit kept
FracDigits(f) ==
    IF f % 1000 = 0 THEN <<48>>
    ELSE IF f % 100 = 0 THEN <<48 + (f \div 100)>>
    ELSE IF f % 10 = 0 THEN <<48 + (f \div 100), 48 + ((f \div 10) % 10)>>
    ELSE <<48 + (f \div 100), 48 + ((f \div 10) % 10), 48 + (f % 10)>>

\* str(x) for the finite float x = m / 1000
\* a variant that writes the whole part only, as str(int(m)) would
FloatToTextWhole(m) == (IF m < 0 THEN <<45>> ELSE <<>>) \o DigitsOf(Abs(m) \div 1000)

FloatToText(m) ==
    (IF m < 0 THEN <<45>> ELSE <<>>)
        \o DigitsOf(Abs(m) \div 1000) \o <<46>> \o FracDigits(Abs(m) % 1000)

\* what csv.writer writes for a field value: '' for None, str(v) otherwise
CsvCell(v) ==
    CASE v.k = "None"  -> <<>>
      [] v.k = "int"   -> IntToText(v.n)
      [] v.k = "float" -> FloatToText(v.n)
      [] v.k = "nan"   -> <<110, 97, 110>>
      [] v.k = "inf"   -> <<105, 110, 102>>
      [] v.k = "str"   -> v.s

RECURSIVE DigitsValue(_)
DigitsValue(t) ==
    IF t = <<>> THEN 0 ELSE DigitsValue(SubSeq(t, 1, Len(t) - 1)) * 10 + (t[Len(t)] - 48)

AllDigits(t) == \A i \in 1..Len(t) : IsDigit(t[i])

HasSign(t) == Len(t) > 0 /\ t[1] \in {43, 45}
Unsigned(t) == IF HasSign(t) THEN Tail(t) ELSE t
SignOf(t) == IF Len(t) > 0 /\ t[1] = 45 THEN -1 ELSE 1

\* int(text): [ok, n]; ok = FALSE is ValueError
ParseInt(t) ==
    LET u == Unsigned(t)
    IN IF Len(u) > 0 /\ AllDigits(u)
       THEN [ok |-> TRUE, n |-> SignOf(t) * DigitsValue(u)]
       ELSE [ok |-> FALSE, n |-> 0]

\* the thousandths a digit string after the decimal point stands for
FracValue(t) ==
    CASE Len(t) = 0 -> 0
      [] Len(t) = 1 -> DigitsValue(t) * 100
      [] Len(t) = 2 -> DigitsValue(t) * 10
      [] OTHER      -> DigitsValue(SubSeq(t, 1, 3))

\* float(text): [ok, v]; ok = FALSE is ValueError
ParseFloat(t) ==
    LET u    == Unsigned(t)
        dots == {i \in 1..Len(u) : u[i] = 46}
        bad  == [ok |-> FALSE, v |-> PyNone]
    IN IF t = <<110, 97, 110>> THEN [ok |-> TRUE, v |-> PyNaN]
       ELSE IF t = <<105, 110, 102>> THEN [ok |-> TRUE, v |-> PyInf]
       ELSE IF dots = {}
       THEN IF Len(u) > 0 /\ AllDigits(u)
            THEN [ok |-> TRUE, v |-> PyFloat(SignOf(t) * DigitsValue(u) * 1000)]
            ELSE bad
       ELSE IF Cardinality(dots) = 1
       THEN LET d  == CHOOSE i \in dots : TRUE
                ip == SubSeq(u, 1, d - 1)
                fp == SubSeq(u, d + 1, Len(u))
            IN IF AllDigits(ip) /\ AllDigits(fp) /\ Len(ip) + Len(fp) > 0
               THEN [ok |-> TRUE,
                     v |-> PyFloat(SignOf(t) * (DigitsValue(ip) * 1000 + FracValue(fp)))]
               ELSE bad
       ELSE bad

\* _safe_float(val, default = 0.0)
safe_float(val) ==
    IF val.k = "None" \/ (val.k = "str" /\ val.s = <<>>) THEN PyFloat(0)
    ELSE CASE val.k = "int" -> PyFloat(val.n * 1000)
           [] val.k = "str" -> (IF ParseFloat(val.s).ok THEN ParseFloat(val.s).v ELSE PyFloat(0))
           [] OTHER         -> val

(***************************************************************************)
(* SimpleCipher: bytes are 0..255, a ciphertext is the Text of its         *)
(* base64 characters.                                                      *)
(***************************************************************************)
\* SimpleCipher.key = b"CheckMyGradeKey"
CipherKey == <<67, 104, 101, 99, 107, 77, 121, 71, 114, 97, 100, 101, 75, 101, 121>>

RECURSIVE BitXor(_, _)
BitXor(a, b) ==
    IF a = 0 /\ b = 0 THEN 0
    ELSE (((a % 2) + (b % 2)) % 2) + 2 * BitXor(a \div 2, b \div 2)

\* the key byte used at 0-based offset i: self.key[i % len(self.key)]
KeyByte(i) == CipherKey[(i % Len(CipherKey)) + 1]

\* a variant that stops at the end of the key, as zip(b, self.key) would
XorWithKeyOnce(b) ==
    [i \in 1..(IF Len(b) < Len(CipherKey) THEN Len(b) ELSE Len(CipherKey)) |->
        BitXor(b[i], KeyByte(i - 1))]

\* bytes([b[i] ^ self.key[i % len(self.key)] for i in range(len(b))])
XorWithKey(b) == [i \in 1..Len(b) |-> BitXor(b[i], KeyByte(i - 1))]

\* one code point as UTF-8 bytes; <<>> for a surrogate (UnicodeEncodeError)
Utf8Bytes(cp) ==
    IF cp < 128 THEN <<cp>>
    ELSE IF cp < 2048 THEN <<192 + (cp \div 64), 128 + (cp % 64)>>
    ELSE IF cp \in 55296..57343 THEN <<>>
    ELSE IF cp < 65536
    THEN <<224 + (cp \div 4096), 128 + ((cp \div 64) % 64), 128 + (cp % 64)>>
    ELSE <<240 + (cp \div 262144), 128 + ((cp \div 4096) % 64),
           128 + ((cp \div 64) % 64), 128 + (cp % 64)>>

RECURSIVE Utf8Concat(_)
Utf8Concat(t) == IF t = <<>> THEN <<>> ELSE Utf8Bytes(Head(t)) \o Utf8Concat(Tail(t))

\* str.encode('utf-8'): [ok, b]; ok = FALSE is UnicodeEncodeError
Utf8Encode(t) ==
    IF \E i \in 1..Len(t) : Utf8Bytes(t[i]) = <<>>
    THEN [ok |-> FALSE, b |-> <<>>]
    ELSE [ok |-> TRUE, b |-> Utf8Concat(t)]

IsCont(b) == b \in 128..191

\* the length of the UTF-8 sequence that starts b, 0 if none is well formed
Utf8SeqLen(b) ==
    IF b[1] < 128 THEN 1
    ELSE IF b[1] \in 194..223
    THEN (IF Len(b) >= 2 /\ IsCont(b[2]) THEN 2 ELSE 0)
    ELSE IF b[1] \in 224..239
    THEN (IF /\ Len(b) >= 3
             /\ IsCont(b[2])
             /\ IsCont(b[3])
             /\ (b[1] = 224 => b[2] >= 160)
             /\ (b[1] = 237 => b[2] <= 159)
          THEN 3 ELSE 0)
    ELSE IF b[1] \in 240..244
    THEN (IF /\ Len(b) >= 4
             /\ IsCont(b[2])
             /\ IsCont(b[3])
             /\ IsCont(b[4])
             /\ (b[1] = 240 => b[2] >= 144)
             /\ (b[1] = 244 => b[2] <= 143)
          THEN 4 ELSE 0)
    ELSE 0

\* the code point of a well-formed sequence of n bytes at the start of b
Utf8CodePoint(b, n) ==
    CASE n = 1 -> b[1]
      [] n = 2 -> (b[1] - 192) * 64 + (b[2] - 128)
      [] n = 3 -> (b[1] - 224) * 4096 + (b[2] - 128) * 64 + (b[3] - 128)
      [] n = 4 -> (b[1] - 240) * 262144 + (b[2] - 128) * 4096
                    + (b[3] - 128) * 64 + (b[4] - 128)

RECURSIVE Utf8Decode(_)
\* bytes.decode('utf-8'): [ok, s]; ok = FALSE is UnicodeDecodeError
Utf8Decode(b) ==
    IF b = <<>> THEN [ok |-> TRUE, s |-> <<>>]
    ELSE LET n == Utf8SeqLen(b)
         IN IF n = 0 THEN [ok |-> FALSE, s |-> <<>>]
            ELSE LET rest == Utf8Decode(SubSeq(b, n + 1, Len(b)))
                 IN IF rest.ok
                    THEN [ok |-> TRUE, s |-> <<Utf8CodePoint(b, n)>> \o rest.s]
                    ELSE [ok |-> FALSE, s |-> <<>>]

\* the character of the URL-safe base64 alphabet for the 6-bit value v
B64Char(v) ==
    IF v < 26 THEN 65 + v
    ELSE IF v < 52 THEN 97 + (v - 26)
    ELSE IF v < 62 THEN 48 + (v - 52)
    ELSE IF v = 62 THEN 45
    ELSE 95

RECURSIVE B64Encode(_)
\* base64.urlsafe_b64encode
B64Encode(b) ==
    CASE Len(b) = 0 -> <<>>
      [] Len(b) = 1 -> <<B64Char(b[1] \div 4), B64Char((b[1] % 4) * 16), 61, 61>>
      [] Len(b) = 2 -> <<B64Char(b[1] \div 4),
                         B64Char((b[1] % 4) * 16 + (b[2] \div 16)),
                         B64Char((b[2] % 16) * 4), 61>>
      [] OTHER      -> <<B64Char(b[1] \div 4),
                         B64Char((b[1] % 4) * 16 + (b[2] \div 16)),
                         B64Char((b[2] % 16) * 4 + (b[3] \div 64)),
                         B64Char(b[3] % 64)>> \o B64Encode(SubSeq(b, 4, Len(b)))

\* the 6-bit value of a character after urlsafe_b64decode's translation of
\* '-' to '+' and '_' to '/'; 64 for a character outside the alphabet
B64Value(c) ==
    IF c \in 65..90 THEN c - 65
    ELSE IF c \in 97..122 THEN c - 97 + 26
    ELSE IF c \in 48..57 THEN c - 48 + 52
    ELSE IF c \in {43, 45} THEN 62
    ELSE IF c \in {47, 95} THEN 63
    ELSE 64

RECURSIVE B64Scan(_, _, _, _, _, _)
\* binascii.a2b_base64 (not strict) from character i on: quad is the position
\* in the current group of four, left the bits carried over, pads the '='
\* seen in a row, out the bytes so far.  [ok, b]; ok = FALSE is binascii.Error
B64Scan(t, i, quad, left, pads, out) ==
    IF i > Len(t) THEN [ok |-> quad = 0, b |-> out]
    ELSE IF t[i] = 61
    THEN (IF quad >= 2 /\ quad + pads + 1 >= 4
          THEN [ok |-> TRUE, b |-> out]
          ELSE B64Scan(t, i + 1, quad, left, IF quad >= 2 THEN pads + 1 ELSE pads, out))
    ELSE LET v == B64Value(t[i])
         IN IF v = 64 THEN B64Scan(t, i + 1, quad, left, pads, out)
            ELSE CASE quad = 0 -> B64Scan(t, i + 1, 1, v, 0, out)
                   [] quad = 1 ->
                        B64Scan(t, i + 1, 2, v % 16, 0, Append(out, left * 4 + (v \div 16)))
                   [] quad = 2 ->
                        B64Scan(t, i + 1, 3, v % 4, 0, Append(out, left * 16 + (v \div 4)))
                   [] quad = 3 ->
                        B64Scan(t, i + 1, 0, 0, 0, Append(out, left * 64 + v))

\* base64.urlsafe_b64decode(text.encode('ascii')): [ok, b]; ok = FALSE is
\* UnicodeEncodeError (a character above 127) or binascii.Error
B64Decode(t) ==
    IF \E i \in 1..Len(t) : t[i] > 127 THEN [ok |-> FALSE, b |-> <<>>]
    ELSE B64Scan(t, 1, 0, 0, 0, <<>>)

\* SimpleCipher.encrypt: [ok, s]; ok = FALSE is an exception
encrypt(plaintext) ==
    LET pt == Utf8Encode(plaintext)
    IN IF pt.ok THEN [ok |-> TRUE, s |-> B64Encode(XorWithKey(pt.b))]
       ELSE [ok |-> FALSE, s |-> <<>>]

\* SimpleCipher.decrypt: [ok, s]; ok = FALSE is an exception
decrypt(ciphertext) ==
    LET ct == B64Decode(ciphertext)
    IN IF ct.ok THEN Utf8Decode(XorWithKey(ct.b)) ELSE [ok |-> FALSE, s |-> <<>>]

(***************************************************************************)
(* Python's comparisons on the values above.                               *)
(***************************************************************************)
\* bool(v) is False
Falsy(v) == \/ v.k = "None"
            \/ (v.k = "str" /\ v.s = <<>>)
            \/ (v.k \in {"int", "float"} /\ v.n = 0)

\* a == b
PyEq(a, b) ==
    CASE a.k = "str" /\ b.k = "str"     -> a.s = b.s
      [] a.k = "None" /\ b.k = "None"   -> TRUE
      [] IsFinite(a) /\ IsFinite(b)     -> Milli(a) = Milli(b)
      [] a.k = "inf" /\ b.k = "inf"     -> TRUE
      [] OTHER                          -> FALSE

RECURSIVE TextLt(_, _)
\* a < b for two str: by code point, a proper prefix first
TextLt(a, b) ==
    IF b = <<>> THEN FALSE
    ELSE IF a = <<>> THEN TRUE
    ELSE IF Head(a) # Head(b) THEN Head(a) < Head(b)
    ELSE TextLt(Tail(a), Tail(b))

\* whether a < b is defined (it raises TypeError otherwise)
Comparable(a, b) == \/ IsNumber(a) /\ IsNumber(b)
                    \/ a.k = "str" /\ b.k = "str"

\* a < b where it is defined; every comparison with nan is False
PyLt(a, b) ==
    CASE a.k = "str" /\ b.k = "str"   -> TextLt(a.s, b.s)
      [] a.k = "nan" \/ b.k = "nan"   -> FALSE
      [] b.k = "inf"                  -> a.k # "inf"
      [] a.k = "inf"                  -> FALSE
      [] IsFinite(a) /\ IsFinite(b)   -> Milli(a) < Milli(b)
      [] OTHER                        -> FALSE

(***************************************************************************)
(* list.sort(key = getattr(., key), reverse = reverse) on lists shorter    *)
(* than 64: the reversal for reverse = True, count_run, binary insertion.  *)
(***************************************************************************)
RECURSIVE RunEnd(_, _, _, _)
\* count_run: the last position of the run that holds positions 1..i
RunEnd(a, key, i, desc) ==
    IF i >= Len(a) THEN Len(a)
    ELSE IF PyLt(a[i + 1][key], a[i][key]) = desc THEN RunEnd(a, key, i + 1, desc)
    ELSE i

RECURSIVE BinPos(_, _, _, _, _)
\* binarysort's search: the 0-based place of pivot in the sorted prefix
BinPos(sorted, key, pivot, l, r) ==
    IF l >= r THEN l
    ELSE LET p == l + ((r - l) \div 2)
         IN IF PyLt(pivot[key], sorted[p + 1][key])
            THEN BinPos(sorted, key, pivot, l, p)
            ELSE BinPos(sorted, key, pivot, p + 1, r)

RECURSIVE BinarySort(_, _, _)
BinarySort(sorted, rest, key) ==
    IF rest = <<>> THEN sorted
    ELSE BinarySort(
             InsertAt(sorted, BinPos(sorted, key, Head(rest), 0, Len(sorted)) + 1, Head(rest)),
             Tail(rest), key)

\* the list after a sort that raised nothing
ListSort(list, key, reverse) ==
    LET a      == IF reverse THEN Reverse(list) ELSE list
        desc   == Len(a) >= 2 /\ PyLt(a[2][key], a[1][key])
        n      == IF Len(a) < 2 THEN Len(a) ELSE RunEnd(a, key, 2, desc)
        run    == IF desc THEN Reverse(SubSeq(a, 1, n)) ELSE SubSeq(a, 1, n)
        sorted == BinarySort(run, SubSeq(a, n + 1, Len(a)), key)
    IN IF reverse THEN Reverse(sorted) ELSE sorted

\* the sort compares two keys for which < is not defined: TypeError
SortRaises(list, key) ==
    /\ Len(list) >= 2
    /\ \E i, j \in 1..Len(list) : i # j /\ ~Comparable(list[i][key], list[j][key])

\* the orders of list: what a sort that raised may leave behind
Orders(list) ==
    {[i \in 1..Len(list) |-> list[f[i]]] :
        f \in {g \in [1..Len(list) -> 1..Len(list)] : Range(g) = 1..Len(list)}}

(***************************************************************************)
(* Data models (the dataclasses) and the CSV files.                        *)
(***************************************************************************)
Student(email_address, first_name, last_name, course_id, grade, marks) ==
    [email_address |-> email_address, first_name |-> first_name,
     last_name |-> last_name, course_id |-> course_id, grade |-> grade,
     marks |-> marks]

Course(course_id, course_name, description, credits) ==
    [course_id |-> course_id, course_name |-> course_name,
     description |-> description, credits |-> credits]

Professor(professor_id, name, rank, course_id) ==
    [professor_id |-> professor_id, name |-> name, rank |-> rank,
     course_id |-> course_id]

LoginUser(user_id, password_enc, role) ==
    [user_id |-> user_id, password_enc |-> password_enc, role |-> role]

StudentHeaders   == <<"email_address", "first_name", "last_name", "course_id", "grade", "marks">>
CourseHeaders    == <<"course_id", "course_name", "description", "credits">>
ProfessorHeaders == <<"professor_id", "name", "rank", "course_id">>
LoginHeaders     == <<"user_id", "password", "role">>

\* A file: its first row (header, column names) and its other non-blank rows
\* (text cells); an empty file, or one whose first line is blank, has header
\* <<>>.  state is "ok", "missing" (no such file) or "undecodable" (the rows
\* are there but reading the file raises, as for bytes that are not UTF-8).
MissingFile == [state |-> "missing", header |-> <<>>, rows |-> <<>>]
UndecodableFile(header, rows) == [state |-> "undecodable", header |-> header, rows |-> rows]
CsvTable(header, rows) == [state |-> "ok", header |-> header, rows |-> rows]

\* a variant that asks for the expected header row itself
has_exact_headers(file, expected_headers) ==
    file.state = "ok" /\ file.header = expected_headers

\* CSVRepo._has_expected_headers
has_expected_headers(file, expected_headers) ==
    IF file.state = "missing" THEN FALSE
    ELSE IF file.state = "undecodable" THEN FALSE
    ELSE IF file.header = <<>> THEN FALSE
    ELSE Range(expected_headers) \subseteq Range(file.header)

\* CSVRepo._ensure_schema: the file afterwards
ensure_schema(file, headers) ==
    IF ~has_expected_headers(file, headers) THEN CsvTable(headers, <<>>) ELSE file

\* csv.DictReader's row.get(name): the cell under the last column of that
\* name, None when the row is too short to have one
RowGet(header, row, name) ==
    LET at == {i \in 1..Len(header) : header[i] = name}
        i  == CHOOSE m \in at : \A o \in at : o <= m
    IN IF i <= Len(row) THEN PyStr(row[i]) ELSE PyNone

\* the credits coercion of load_courses
LoadCredits(credits_val) ==
    IF credits_val.k = "None" \/ credits_val = PyStr(<<>>) THEN PyNone
    ELSE IF ParseInt(credits_val.s).ok THEN PyInt(ParseInt(credits_val.s).n)
    ELSE PyNone

\* CSVRepo.load_students: the list returned (the file becomes
\* ensure_schema(file, StudentHeaders))
load_students(file) ==
    LET f == ensure_schema(file, StudentHeaders)
    IN [i \in 1..Len(f.rows) |->
           Student(RowGet(f.header, f.rows[i], "email_address"),
                   RowGet(f.header, f.rows[i], "first_name"),
                   RowGet(f.header, f.rows[i], "last_name"),
                   RowGet(f.header, f.rows[i], "course_id"),
                   RowGet(f.header, f.rows[i], "grade"),
                   safe_float(RowGet(f.header, f.rows[i], "marks")))]

\* CSVRepo.load_courses
load_courses(file) ==
    LET f == ensure_schema(file, CourseHeaders)
    IN [i \in 1..Len(f.rows) |->
           Course(RowGet(f.header, f.rows[i], "course_id"),
                  RowGet(f.header, f.rows[i], "course_name"),
                  RowGet(f.header, f.rows[i], "description"),
                  LoadCredits(RowGet(f.header, f.rows[i], "credits")))]

\* CSVRepo.load_professors
load_professors(file) ==
    LET f == ensure_schema(file, ProfessorHeaders)
    IN [i \in 1..Len(f.rows) |->
           Professor(RowGet(f.header, f.rows[i], "professor_id"),
                     RowGet(f.header, f.rows[i], "name"),
                     RowGet(f.header, f.rows[i], "rank"),
                     RowGet(f.header, f.rows[i], "course_id"))]

\* CSVRepo.load_logins
load_logins(file) ==
    LET f == ensure_schema(file, LoginHeaders)
    IN [i \in 1..Len(f.rows) |->
           LoginUser(RowGet(f.header, f.rows[i], "user_id"),
                     RowGet(f.header, f.rows[i], "password"),
                     RowGet(f.header, f.rows[i], "role"))]

\* open(path, 'w') then DictWriter.writeheader and writerow: the content of
\* the file before (here after _ensure_schema) is gone
Rewrite(before, headers, rows) == CsvTable(headers, rows)

\* CSVRepo.save_students: the file afterwards
save_students(file, list) ==
    Rewrite(ensure_schema(file, StudentHeaders), StudentHeaders,
            [i \in 1..Len(list) |->
                <<CsvCell(list[i].email_address), CsvCell(list[i].first_name),
                  CsvCell(list[i].last_name), CsvCell(list[i].course_id),
                  CsvCell(list[i].grade), CsvCell(list[i].marks)>>])

\* CSVRepo.save_courses ('' is written for credits None)
save_courses(file, list) ==
    Rewrite(ensure_schema(file, CourseHeaders), CourseHeaders,
            [i \in 1..Len(list) |->
                <<CsvCell(list[i].course_id), CsvCell(list[i].course_name),
                  CsvCell(list[i].description),
                  IF list[i].credits.k # "None" THEN CsvCell(list[i].credits) ELSE <<>> >>])

\* CSVRepo.save_professors
save_professors(file, list) ==
    Rewrite(ensure_schema(file, ProfessorHeaders), ProfessorHeaders,
            [i \in 1..Len(list) |->
                <<CsvCell(list[i].professor_id), CsvCell(list[i].name),
                  CsvCell(list[i].rank), CsvCell(list[i].course_id)>>])

\* CSVRepo.save_logins
save_logins(file, list) ==
    Rewrite(ensure_schema(file, LoginHeaders), LoginHeaders,
            [i \in 1..Len(list) |->
                <<CsvCell(list[i].user_id), CsvCell(list[i].password_enc),
                  CsvCell(list[i].role)>>])

(***************************************************************************)
(* CheckMyGradeService.  An action is one call: it sets last to the call   *)
(* and its outcome.  ret is "None", "True" or "False" for a call that      *)
(* returned, the exception's name for one that raised; out is the value of *)
(* a call that returns data.                                               *)
(***************************************************************************)
Call(op, args, ret, out) == [op |-> op, args |-> args, ret |-> ret, out |-> out]

NoOut == <<>>

StudentsFrame == UNCHANGED <<suite, courses, professors, logins, courses_csv,
                             professors_csv, login_csv, pwset, active, other>>
CoursesFrame == UNCHANGED <<suite, students, professors, logins, students_csv,
                            professors_csv, login_csv, pwset, active, other>>
ProfessorsFrame == UNCHANGED <<suite, students, courses, logins, students_csv,
                               courses_csv, login_csv, pwset, active, other>>
LoginsFrame == UNCHANGED <<suite, students, courses, professors, students_csv,
                           courses_csv, professors_csv, active, other>>

\* the positions of the records of list whose field id equals value
Matching(list, id, value) == {i \in 1..Len(list) : PyEq(list[i][id], value)}

First(S) == CHOOSE i \in S : \A j \in S : i <= j

\* [x for x in list if x.id != value]
RECURSIVE Without(_, _, _)
Without(list, id, value) ==
    IF list = <<>> THEN <<>>
    ELSE IF PyEq(Head(list)[id], value) THEN Without(Tail(list), id, value)
    ELSE <<Head(list)>> \o Without(Tail(list), id, value)

\* a variant of add_student that adds a row to the file in place of the
\* rewrite from the collection
add_student_appending(student) ==
    /\ IF Falsy(student.email_address) \/ Matching(students, "email_address", student.email_address) # {}
       THEN /\ last' = Call("add_student", <<student>>, "ValueError", NoOut)
            /\ UNCHANGED <<students, students_csv>>
       ELSE /\ students' = Append(students, student)
            /\ students_csv' =
                   CsvTable(ensure_schema(students_csv, StudentHeaders).header,
                            ensure_schema(students_csv, StudentHeaders).rows
                                \o save_students(students_csv, <<student>>).rows)
            /\ last' = Call("add_student", <<student>>, "None", NoOut)
    /\ StudentsFrame

\* a variant of add_student without the check of the identifier
add_student_unchecked(student) ==
    /\ students' = Append(students, student)
    /\ students_csv' = save_students(students_csv, students')
    /\ last' = Call("add_student", <<student>>, "None", NoOut)
    /\ StudentsFrame

\* ---- Student ops ----
add_student(student) ==
    /\ IF Falsy(student.email_address) \/ Matching(students, "email_address", student.email_address) # {}
       THEN /\ last' = Call("add_student", <<student>>, "ValueError", NoOut)
            /\ UNCHANGED <<students, students_csv>>
       ELSE /\ students' = Append(students, student)
            /\ students_csv' = save_students(students_csv, students')
            /\ last' = Call("add_student", <<student>>, "None", NoOut)
    /\ StudentsFrame

\* a variant of delete_student that reports a removal in any case
delete_student_always(email) ==
    /\ students' = Without(students, "email_address", email)
    /\ students_csv' = save_students(students_csv, students')
    /\ last' = Call("delete_student", <<email>>, "True", NoOut)
    /\ StudentsFrame

delete_student(email) ==
    /\ students' = Without(students, "email_address", email)
    /\ IF Len(students') < Len(students)
       THEN /\ students_csv' = save_students(students_csv, students')
            /\ last' = Call("delete_student", <<email>>, "True", NoOut)
       ELSE /\ UNCHANGED students_csv
            /\ last' = Call("delete_student", <<email>>, "False", NoOut)
    /\ StudentsFrame

RECURSIVE StudentSetAttrs(_, _)
\* the loop over updates.items() of update_student: updates is the sequence
\* of <<name, value>> pairs; hasattr(s, k) holds for the fields of s
StudentSetAttrs(s, updates) ==
    IF updates = <<>> THEN s
    ELSE LET k == Head(updates)[1]
             v == Head(updates)[2]
         IN StudentSetAttrs(
                IF k \in DOMAIN s
                THEN [s EXCEPT ![k] = IF k = "marks" THEN safe_float(v) ELSE v]
                ELSE s,
                Tail(updates))

update_student(email, updates) ==
    /\ IF Matching(students, "email_address", email) # {}
       THEN LET i == First(Matching(students, "email_address", email))
            IN /\ students' = [students EXCEPT ![i] = StudentSetAttrs(students[i], updates)]
               /\ students_csv' = save_students(students_csv, students')
               /\ last' = Call("update_student", <<email, updates>>, "True", NoOut)
       ELSE /\ UNCHANGED <<students, students_csv>>
            /\ last' = Call("update_student", <<email, updates>>, "False", NoOut)
    /\ StudentsFrame

\* getattr(s, key) raises AttributeError before anything is moved; a
\* comparison that raises TypeError leaves the list in some order and is not
\* followed by the save
sort_students(key, reverse) ==
    /\ IF students # <<>> /\ key \notin DOMAIN students[1]
       THEN /\ UNCHANGED <<students, students_csv>>
            /\ last' = Call("sort_students", <<key, reverse>>, "AttributeError", NoOut)
       ELSE IF SortRaises(students, key)
       THEN /\ students' \in Orders(students)
            /\ UNCHANGED students_csv
            /\ last' = Call("sort_students", <<key, reverse>>, "TypeError", NoOut)
       ELSE /\ students' = ListSort(students, key, reverse)
            /\ students_csv' = save_students(students_csv, students')
            /\ last' = Call("sort_students", <<key, reverse>>, "None", NoOut)
    /\ StudentsFrame

\* ---- Course ops ----
add_course(course) ==
    /\ IF Falsy(course.course_id) \/ Matching(courses, "course_id", course.course_id) # {}
       THEN /\ last' = Call("add_course", <<course>>, "ValueError", NoOut)
            /\ UNCHANGED <<courses, courses_csv>>
       ELSE /\ courses' = Append(courses, course)
            /\ courses_csv' = save_courses(courses_csv, courses')
            /\ last' = Call("add_course", <<course>>, "None", NoOut)
    /\ CoursesFrame

delete_course(course_id) ==
    /\ courses' = Without(courses, "course_id", course_id)
    /\ IF Len(courses') < Len(courses)
       THEN /\ courses_csv' = save_courses(courses_csv, courses')
            /\ last' = Call("delete_course", <<course_id>>, "True", NoOut)
       ELSE /\ UNCHANGED courses_csv
            /\ last' = Call("delete_course", <<course_id>>, "False", NoOut)
    /\ CoursesFrame

\* int(v) as update_course uses it: [ret, v]; ret "None" is a value, ValueError
\* and TypeError are caught (v becomes None), OverflowError is not
IntOf(v) ==
    CASE v.k = "int"   -> [ret |-> "None", v |-> v]
      [] v.k = "float" -> [ret |-> "None",
                           v |-> PyInt((IF v.n < 0 THEN -1 ELSE 1) * (Abs(v.n) \div 1000))]
      [] v.k = "nan"   -> [ret |-> "None", v |-> PyNone]
      [] v.k = "inf"   -> [ret |-> "OverflowError", v |-> v]
      [] v.k = "str"   -> [ret |-> "None",
                           v |-> IF ParseInt(v.s).ok THEN PyInt(ParseInt(v.s).n) ELSE PyNone]
      [] OTHER         -> [ret |-> "None", v |-> PyNone]

RECURSIVE CourseSetAttrs(_, _)
\* the loop over updates.items() of update_course: [ret, c], the course when
\* the loop ended or raised
CourseSetAttrs(c, updates) ==
    IF updates = <<>> THEN [ret |-> "None", c |-> c]
    ELSE LET k == Head(updates)[1]
             v == Head(updates)[2]
         IN IF k \notin DOMAIN c THEN CourseSetAttrs(c, Tail(updates))
            ELSE IF k = "credits" /\ ~(v.k = "None" \/ PyEq(v, PyStr(<<>>)))
            THEN (IF IntOf(v).ret # "None" THEN [ret |-> IntOf(v).ret, c |-> c]
                  ELSE CourseSetAttrs([c EXCEPT ![k] = IntOf(v).v], Tail(updates)))
            ELSE CourseSetAttrs([c EXCEPT ![k] = v], Tail(updates))

update_course(course_id, updates) ==
    /\ IF Matching(courses, "course_id", course_id) # {}
       THEN LET i == First(Matching(courses, "course_id", course_id))
                r == CourseSetAttrs(courses[i], updates)
            IN /\ courses' = [courses EXCEPT ![i] = r.c]
               /\ IF r.ret = "None"
                  THEN /\ courses_csv' = save_courses(courses_csv, courses')
                       /\ last' = Call("update_course", <<course_id, updates>>, "True", NoOut)
                  ELSE /\ UNCHANGED courses_csv
                       /\ last' = Call("update_course", <<course_id, updates>>, r.ret, NoOut)
       ELSE /\ UNCHANGED <<courses, courses_csv>>
            /\ last' = Call("update_course", <<course_id, updates>>, "False", NoOut)
    /\ CoursesFrame

\* ---- Professor ops ----
add_professor(prof) ==
    /\ IF Falsy(prof.professor_id) \/ Matching(professors, "professor_id", prof.professor_id) # {}
       THEN /\ last' = Call("add_professor", <<prof>>, "ValueError", NoOut)
            /\ UNCHANGED <<professors, professors_csv>>
       ELSE /\ professors' = Append(professors, prof)
            /\ professors_csv' = save_professors(professors_csv, professors')
            /\ last' = Call("add_professor", <<prof>>, "None", NoOut)
    /\ ProfessorsFrame

delete_professor(professor_id) ==
    /\ professors' = Without(professors, "professor_id", professor_id)
    /\ IF Len(professors') < Len(professors)
       THEN /\ professors_csv' = save_professors(professors_csv, professors')
            /\ last' = Call("delete_professor", <<professor_id>>, "True", NoOut)
       ELSE /\ UNCHANGED professors_csv
            /\ last' = Call("delete_professor", <<professor_id>>, "False", NoOut)
    /\ ProfessorsFrame

RECURSIVE ProfessorSetAttrs(_, _)
ProfessorSetAttrs(p, updates) ==
    IF updates = <<>> THEN p
    ELSE LET k == Head(updates)[1]
             v == Head(updates)[2]
         IN ProfessorSetAttrs(IF k \in DOMAIN p THEN [p EXCEPT ![k] = v] ELSE p,
                              Tail(updates))

update_professor(professor_id, updates) ==
    /\ IF Matching(professors, "professor_id", professor_id) # {}
       THEN LET i == First(Matching(professors, "professor_id", professor_id))
            IN /\ professors' = [professors EXCEPT ![i] = ProfessorSetAttrs(professors[i], updates)]
               /\ professors_csv' = save_professors(professors_csv, professors')
               /\ last' = Call("update_professor", <<professor_id, updates>>, "True", NoOut)
       ELSE /\ UNCHANGED <<professors, professors_csv>>
            /\ last' = Call("update_professor", <<professor_id, updates>>, "False", NoOut)
    /\ ProfessorsFrame

\* ---- Login ops ----
\* pwset records, per user_id text, the password last set and the call that
\* set it
NoPassword == [set |-> FALSE, pw |-> <<>>, by |-> "none"]
SetPassword(pw, by) == [set |-> TRUE, pw |-> pw, by |-> by]

register_user(user_id, password_plain, role) ==
    /\ IF Falsy(user_id) \/ Matching(logins, "user_id", user_id) # {}
       THEN /\ last' = Call("register_user", <<user_id, password_plain, role>>, "ValueError", NoOut)
            /\ UNCHANGED <<logins, login_csv, pwset>>
       ELSE IF ~encrypt(password_plain).ok
       THEN /\ last' = Call("register_user", <<user_id, password_plain, role>>, "UnicodeEncodeError", NoOut)
            /\ UNCHANGED <<logins, login_csv, pwset>>
       ELSE /\ logins' = Append(logins, LoginUser(user_id, PyStr(encrypt(password_plain).s), role))
            /\ login_csv' = save_logins(login_csv, logins')
            /\ pwset' = [pwset EXCEPT ![user_id.s] = SetPassword(password_plain, "register_user")]
            /\ last' = Call("register_user", <<user_id, password_plain, role>>, "None", NoOut)
    /\ LoginsFrame

\* a variant that compares the stored text with the password itself
PasswordIsStored(u, password_plain) ==
    /\ u.password_enc.k = "str"
    /\ u.password_enc.s = password_plain

\* CIPHER.decrypt(u.password_enc) == password_plain, False on any exception
PasswordMatches(u, password_plain) ==
    /\ u.password_enc.k = "str"
    /\ decrypt(u.password_enc.s).ok
    /\ decrypt(u.password_enc.s).s = password_plain

login(user_id, password_plain) ==
    /\ IF Matching(logins, "user_id", user_id) # {}
       THEN LET u == logins[First(Matching(logins, "user_id", user_id))]
            IN last' = Call("login", <<user_id, password_plain>>,
                            IF PasswordMatches(u, password_plain) THEN "True" ELSE "False",
                            NoOut)
       ELSE last' = Call("login", <<user_id, password_plain>>, "False", NoOut)
    /\ UNCHANGED <<logins, login_csv, pwset>>
    /\ LoginsFrame

change_password(user_id, new_password_plain) ==
    /\ IF Matching(logins, "user_id", user_id) # {}
       THEN LET i == First(Matching(logins, "user_id", user_id))
            IN IF ~encrypt(new_password_plain).ok
               THEN /\ last' = Call("change_password", <<user_id, new_password_plain>>,
                                    "UnicodeEncodeError", NoOut)
                    /\ UNCHANGED <<logins, login_csv, pwset>>
               ELSE /\ logins' = [logins EXCEPT ![i].password_enc =
                                      PyStr(encrypt(new_password_plain).s)]
                    /\ login_csv' = save_logins(login_csv, logins')
                    /\ pwset' = [pwset EXCEPT ![user_id.s] = SetPassword(new_password_plain, "change_password")]
                    /\ last' = Call("change_password", <<user_id, new_password_plain>>, "True", NoOut)
       ELSE /\ UNCHANGED <<logins, login_csv, pwset>>
            /\ last' = Call("change_password", <<user_id, new_password_plain>>, "False", NoOut)
    /\ LoginsFrame

\* ---- Reports & Stats ----
\* [s.marks for s in self.students if s.course_id == course_id]
RECURSIVE MarksOf(_, _)
MarksOf(list, course_id) ==
    IF list = <<>> THEN <<>>
    ELSE IF PyEq(Head(list).course_id, course_id)
    THEN <<Head(list).marks>> \o MarksOf(Tail(list), course_id)
    ELSE MarksOf(Tail(list), course_id)

RECURSIVE SumMilli(_)
SumMilli(marks) == IF marks = <<>> THEN 0 ELSE Milli(Head(marks)) + SumMilli(Tail(marks))

\* round(a / n, 3) in thousandths, a in thousandths: nearest, ties to even
RoundDiv(a, n) ==
    LET q == a \div n
        r == a % n
    IN IF 2 * r < n THEN q
       ELSE IF 2 * r > n THEN q + 1
       ELSE IF q % 2 = 0 THEN q ELSE q + 1

\* round(sum(marks) / len(marks), 3) for a list of numbers
Average(marks) ==
    IF \E i \in 1..Len(marks) : marks[i].k = "nan" THEN PyNaN
    ELSE IF \E i \in 1..Len(marks) : marks[i].k = "inf" THEN PyInf
    ELSE PyFloat(RoundDiv(SumMilli(marks), Len(marks)))

\* round(float(statistics.median(marks)), 3): the middle of sorted(marks),
\* the mean of the two middle values for an even count
Median(marks) ==
    LET data == ListSort([i \in 1..Len(marks) |-> [v |-> marks[i]]], "v", FALSE)
        n    == Len(data)
        lo   == data[n \div 2].v
        hi   == data[(n \div 2) + 1].v
    IN IF n % 2 = 1
       THEN (IF IsFinite(hi) THEN PyFloat(Milli(hi)) ELSE hi)
       ELSE IF lo.k = "nan" \/ hi.k = "nan" THEN PyNaN
       ELSE IF lo.k = "inf" \/ hi.k = "inf" THEN PyInf
       ELSE PyFloat(RoundDiv(Milli(lo) + Milli(hi), 2))

Stats(average, median) == [average |-> average, median |-> median]

\* sum(marks) raises TypeError on a str or None among the marks
stats_for_course(course_id) ==
    /\ LET marks == MarksOf(students, course_id)
       IN IF marks = <<>>
          THEN last' = Call("stats_for_course", <<course_id>>, "None",
                            Stats(PyFloat(0), PyFloat(0)))
          ELSE IF \E i \in 1..Len(marks) : ~IsNumber(marks[i])
          THEN last' = Call("stats_for_course", <<course_id>>, "TypeError", NoOut)
          ELSE last' = Call("stats_for_course", <<course_id>>, "None",
                            Stats(Average(marks), Median(marks)))
    /\ UNCHANGED <<students, students_csv>>
    /\ StudentsFrame

\* next((s for s in self.students if s.email_address == email), None)
report_by_student(email) ==
    /\ last' = Call("report_by_student", <<email>>, "None",
                    IF Matching(students, "email_address", email) # {}
                    THEN students[First(Matching(students, "email_address", email))]
                    ELSE PyNone)
    /\ UNCHANGED <<students, students_csv>>
    /\ StudentsFrame

\* ---- two service objects over the same files ----
\* the collections of a CheckMyGradeService object
Service(s, c, p, l) == [students |-> s, courses |-> c, professors |-> p, logins |-> l]

\* the client turns to its other service object: the next calls are made on
\* that one (students, courses, professors and logins are the collections
\* of the object that is called; the files are the same for both)
use_other ==
    /\ active' = IF active = "A" THEN "B" ELSE "A"
    /\ other' = Service(students, courses, professors, logins)
    /\ students' = other.students
    /\ courses' = other.courses
    /\ professors' = other.professors
    /\ logins' = other.logins
    /\ UNCHANGED <<suite, students_csv, courses_csv, professors_csv, login_csv, last, pwset>>

\* ---- CSVRepo and SimpleCipher called directly ----
repo_load_students ==
    /\ students_csv' = ensure_schema(students_csv, StudentHeaders)
    /\ last' = Call("load_students", <<>>, "None", load_students(students_csv))
    /\ UNCHANGED students
    /\ StudentsFrame

repo_save_students(list) ==
    /\ students_csv' = save_students(students_csv, list)
    /\ last' = Call("save_students", <<list>>, "None", NoOut)
    /\ UNCHANGED students
    /\ StudentsFrame

repo_load_courses ==
    /\ courses_csv' = ensure_schema(courses_csv, CourseHeaders)
    /\ last' = Call("load_courses", <<>>, "None", load_courses(courses_csv))
    /\ UNCHANGED courses
    /\ CoursesFrame

repo_save_courses(list) ==
    /\ courses_csv' = save_courses(courses_csv, list)
    /\ last' = Call("save_courses", <<list>>, "None", NoOut)
    /\ UNCHANGED courses
    /\ CoursesFrame

repo_load_professors ==
    /\ professors_csv' = ensure_schema(professors_csv, ProfessorHeaders)
    /\ last' = Call("load_professors", <<>>, "None", load_professors(professors_csv))
    /\ UNCHANGED professors
    /\ ProfessorsFrame

repo_save_professors(list) ==
    /\ professors_csv' = save_professors(professors_csv, list)
    /\ last' = Call("save_professors", <<list>>, "None", NoOut)
    /\ UNCHANGED professors
    /\ ProfessorsFrame

repo_load_logins ==
    /\ login_csv' = ensure_schema(login_csv, LoginHeaders)
    /\ last' = Call("load_logins", <<>>, "None", load_logins(login_csv))
    /\ UNCHANGED <<logins, pwset>>
    /\ LoginsFrame

repo_save_logins(list) ==
    /\ login_csv' = save_logins(login_csv, list)
    /\ last' = Call("save_logins", <<list>>, "None", NoOut)
    /\ UNCHANGED <<logins, pwset>>
    /\ LoginsFrame

cipher_encrypt(plaintext) ==
    /\ last' = Call("encrypt", <<plaintext>>,
                    IF encrypt(plaintext).ok THEN "None" ELSE "UnicodeEncodeError",
                    encrypt(plaintext).s)
    /\ UNCHANGED <<logins, login_csv, pwset>>
    /\ LoginsFrame

cipher_decrypt(ciphertext) ==
    /\ last' = Call("decrypt", <<ciphertext>>,
                    IF decrypt(ciphertext).ok THEN "None" ELSE "Exception",
                    decrypt(ciphertext).s)
    /\ UNCHANGED <<logins, login_csv, pwset>>
    /\ LoginsFrame

(***************************************************************************)
(* The inputs of the runs.  A run exercises one part of the API (suite):   *)
(* the four collections and their files share no state, and no operation   *)
(* of one entity type reads or writes another's list or file.              *)
(***************************************************************************)
MaxStudents   == 2   \* students in the "students" runs
MaxReported   == 3   \* students in the "reports" runs
MaxCourses    == 2
MaxProfessors == 2
MaxRepoRows   == 2   \* records of a list handed to CSVRepo.save_*
MaxPwLen      == 3   \* characters of an enumerated password

T(text) == PyStr(text)
Empty   == T(<<>>)
EmailA  == T(<<97>>)                      \* "a"
EmailB  == T(<<98>>)                      \* "b"
EmailC  == T(<<99>>)                      \* "c"
First_  == T(<<83, 97, 109>>)             \* "Sam"
Last_   == T(<<76>>)                      \* "L"
CourseX == T(<<120>>)                     \* "x"
CourseY == T(<<121>>)                     \* "y"
GradeA  == T(<<65>>)                      \* "A"
GradeB  == T(<<66>>)                      \* "B"
TextAbc == T(<<97, 98, 99>>)              \* "abc"
TextNan == T(<<110, 97, 110>>)            \* "nan"
Text4   == T(<<52>>)                      \* "4"
Desc1   == T(<<100>>)                     \* "d"
Desc2   == T(<<100, 50>>)                 \* "d2"
Rank1   == T(<<80>>)                      \* "P"
Rank2   == T(<<65, 80>>)                  \* "AP"
RoleP   == T(<<112>>)                     \* "p"

Welcome  == <<87, 101, 108, 99, 111, 109, 101, 49, 50, 35, 95>>   \* "Welcome12#_"
NewPass  == <<78, 101, 119, 80, 64, 115, 115, 49>>                \* "NewP@ss1"
Wrong    == <<119, 114, 111, 110, 103>>                           \* "wrong"
\* two passwords longer than the key that differ in their last character
LongPw1  == Welcome \o <<45, 120, 120, 120, 120, 49>>             \* 17 characters
LongPw2  == Welcome \o <<45, 120, 120, 120, 120, 50>>
\* characters of 1, 2, 3 and 4 UTF-8 bytes: "a", e-acute, euro sign, an emoji
PwChars  == {97, 233, 8364, 128512}

ServiceSuites    == {"students", "reports", "courses", "professors", "logins"}
RepoSuites       == {"repo_students", "repo_courses", "repo_professors", "repo_logins"}
Suites           == ServiceSuites \cup {"two"} \cup RepoSuites \cup {"cipher"}

\* ---- "students": CRUD and sort on two e-mail addresses ----
StudentsAdded ==
    {Student(e, First_, Last_, CourseX, GradeA, m) :
        e \in {EmailA, EmailB, Empty},
        m \in {PyInt(96), TextAbc}}

StudentUpdates ==
    { <<<<"marks", PyInt(97)>>, <<"grade", GradeB>>>>,
      <<<<"marks", PyNone>>>>,
      <<<<"marks", TextNan>>>>,
      <<<<"email_address", EmailB>>>>,
      <<<<"nickname", EmailA>>>> }

SortKeys == {"marks", "nickname"}

\* ---- "reports": sort and statistics on three students ----
ReportedAdded ==
    {Student(ec[1], First_, Last_, ec[2], GradeA, m) :
        ec \in {<<EmailA, CourseX>>, <<EmailB, CourseX>>, <<EmailC, CourseX>>,
                <<EmailC, CourseY>>},
        m \in {PyFloat(90000), PyFloat(100000), PyNaN}}

\* ---- "courses" ----
CoursesAdded ==
    {Course(c, Desc1, Empty, cr) : c \in {CourseX, CourseY, Empty}, cr \in {PyInt(3), PyNone}}

CourseUpdates ==
    { <<<<"description", Desc2>>>>,
      <<<<"credits", PyInt(4)>>>>,
      <<<<"credits", Text4>>>>,
      <<<<"credits", TextAbc>>>>,
      <<<<"credits", Empty>>>>,
      <<<<"credits", PyNone>>>>,
      <<<<"credits", PyFloat(3700)>>>>,
      <<<<"description", Desc2>>, <<"credits", PyInf>>>>,
      <<<<"nickname", Desc2>>>> }

\* ---- "professors" ----
ProfessorsAdded ==
    {Professor(p, First_, Rank1, CourseX) : p \in {EmailA, EmailB, Empty}}

ProfessorUpdates ==
    { <<<<"rank", Rank2>>>>,
      <<<<"course_id", CourseY>>, <<"rank", Rank2>>>>,
      <<<<"nickname", Rank2>>>> }

\* ---- "logins" ----
UserIds   == {EmailA, EmailB}
Passwords == {Welcome, NewPass, <<>>, LongPw1}

\* the password column of a user row: a ciphertext an earlier run wrote, or
\* text that is none ("a": one base64 character; "vA==": the byte 0xFF after
\* the XOR, not UTF-8; e-acute: not ASCII)
BadCiphertexts == {<<97>>, <<118, 65, 61, 61>>, <<233>>}

NoPasswords == [u \in {v.s : v \in UserIds} |-> NoPassword]

\* ---- files a run may start from ----
\* the row of a file with this header that holds the cells (column -> text);
\* a column the cells do not name holds "n"
RowFor(header, cells) ==
    [i \in 1..Len(header) |-> IF header[i] \in DOMAIN cells THEN cells[header[i]] ELSE <<110>>]

\* a file of each kind for the expected headers: missing, not decodable,
\* empty, blank first line, a column short, as saved, more columns in
\* another order
FileShapes(headers, cells) ==
    LET short == SubSeq(headers, 1, Len(headers) - 1)
        wide  == <<headers[Len(headers)], "note">> \o short
        rows(h) == [i \in 1..Len(cells) |-> RowFor(h, cells[i])]
    IN { MissingFile, UndecodableFile(headers, rows(headers)), CsvTable(<<>>, <<>>),
         CsvTable(<<>>, rows(headers)), CsvTable(short, rows(short)),
         CsvTable(headers, rows(headers)), CsvTable(wide, rows(wide)) }

StudentCells ==
    << [email_address |-> <<97>>, first_name |-> First_.s, last_name |-> Last_.s,
        course_id |-> <<120>>, grade |-> <<65>>, marks |-> <<57, 48, 46, 48>>],
       [email_address |-> <<98>>, first_name |-> First_.s, last_name |-> Last_.s,
        course_id |-> <<120>>, grade |-> <<66>>, marks |-> <<97, 98, 99>>] >>

CourseCells ==
    << [course_id |-> <<120>>, course_name |-> <<100>>, description |-> <<>>,
        credits |-> <<51>>],
       [course_id |-> <<121>>, course_name |-> <<100>>, description |-> <<100>>,
        credits |-> <<51, 46, 53>>] >>

ProfessorCells ==
    << [professor_id |-> <<97>>, name |-> First_.s, rank |-> <<80>>, course_id |-> <<120>>] >>

LoginCells ==
    << [user_id |-> <<97>>, password |-> encrypt(Welcome).s, role |-> <<112>>] >>

Files(s, c, p, l, pw) ==
    [students_csv |-> s, courses_csv |-> c, professors_csv |-> p, login_csv |-> l,
     pwset |-> pw]

\* the files (and the passwords already set) a run of the suite starts from
InitFiles(st) ==
    CASE st = "students" ->
            {Files(f, MissingFile, MissingFile, MissingFile, NoPasswords) :
                f \in {MissingFile, CsvTable(StudentHeaders, <<RowFor(StudentHeaders, StudentCells[2])>>)}}
      [] st = "reports" ->
            {Files(MissingFile, MissingFile, MissingFile, MissingFile, NoPasswords)}
      [] st = "courses" ->
            {Files(MissingFile, f, MissingFile, MissingFile, NoPasswords) :
                f \in {MissingFile, CsvTable(CourseHeaders, <<RowFor(CourseHeaders, CourseCells[2])>>)}}
      [] st = "professors" ->
            {Files(MissingFile, MissingFile, f, MissingFile, NoPasswords) :
                f \in {MissingFile, CsvTable(ProfessorHeaders, <<RowFor(ProfessorHeaders, ProfessorCells[1])>>)}}
      [] st = "logins" ->
            {Files(MissingFile, MissingFile, MissingFile, MissingFile, NoPasswords),
             Files(MissingFile, MissingFile, MissingFile,
                   CsvTable(LoginHeaders, <<RowFor(LoginHeaders, LoginCells[1])>>),
                   [NoPasswords EXCEPT ![<<97>>] = SetPassword(Welcome, "register_user")])}
            \cup {Files(MissingFile, MissingFile, MissingFile,
                        CsvTable(LoginHeaders, << <<<<97>>, ct, <<112>>>> >>), NoPasswords) :
                     ct \in BadCiphertexts}
      [] st = "repo_students" ->
            {Files(f, MissingFile, MissingFile, MissingFile, NoPasswords) :
                f \in FileShapes(StudentHeaders, StudentCells)}
      [] st = "repo_courses" ->
            {Files(MissingFile, f, MissingFile, MissingFile, NoPasswords) :
                f \in FileShapes(CourseHeaders, CourseCells)}
      [] st = "repo_professors" ->
            {Files(MissingFile, MissingFile, f, MissingFile, NoPasswords) :
                f \in FileShapes(ProfessorHeaders, ProfessorCells)}
      [] st = "repo_logins" ->
            {Files(MissingFile, MissingFile, MissingFile, f, NoPasswords) :
                f \in FileShapes(LoginHeaders, LoginCells)}
      [] OTHER ->
            {Files(MissingFile, MissingFile, MissingFile, MissingFile, NoPasswords)}

\* CheckMyGradeService.__init__ for a service suite: the four loads, each
\* with its schema check; the other suites call CSVRepo or CIPHER without a
\* service
Init ==
    \E st \in Suites : \E f \in InitFiles(st) :
        /\ suite = st
        /\ pwset = f.pwset
        /\ last = Call("init", <<>>, "None", NoOut)
        /\ active = "A"
        /\ other = IF st = "two"
                   THEN Service(load_students(f.students_csv), load_courses(f.courses_csv),
                                load_professors(f.professors_csv), load_logins(f.login_csv))
                   ELSE Service(<<>>, <<>>, <<>>, <<>>)
        /\ IF st \in ServiceSuites \cup {"two"}
           THEN /\ students = load_students(f.students_csv)
                /\ students_csv = ensure_schema(f.students_csv, StudentHeaders)
                /\ courses = load_courses(f.courses_csv)
                /\ courses_csv = ensure_schema(f.courses_csv, CourseHeaders)
                /\ professors = load_professors(f.professors_csv)
                /\ professors_csv = ensure_schema(f.professors_csv, ProfessorHeaders)
                /\ logins = load_logins(f.login_csv)
                /\ login_csv = ensure_schema(f.login_csv, LoginHeaders)
           ELSE /\ students = <<>> /\ students_csv = f.students_csv
                /\ courses = <<>> /\ courses_csv = f.courses_csv
                /\ professors = <<>> /\ professors_csv = f.professors_csv
                /\ logins = <<>> /\ login_csv = f.login_csv

\* an add is tried while the list is below the bound, or when it fails
Room(list, max, id, rec) ==
    Len(list) < max \/ Falsy(rec[id]) \/ Matching(list, id, rec[id]) # {}

\* ---- lists handed to CSVRepo.save_* ----
RepoStudents ==
    SeqsUpTo({Student(EmailA, First_, Last_, CourseX, GradeA, PyFloat(90000)),
              Student(EmailB, Empty, Last_, CourseY, GradeB, PyInt(96)),
              Student(EmailC, First_, Last_, CourseX, Empty, PyFloat(-1250))}, MaxRepoRows)

RepoCourses ==
    SeqsUpTo({Course(CourseX, Desc1, Empty, PyInt(3)),
              Course(CourseY, Desc1, Desc2, PyNone),
              Course(EmailC, Desc2, Desc1, PyInt(-1))}, MaxRepoRows)

RepoProfessors ==
    SeqsUpTo({Professor(EmailA, First_, Rank1, CourseX),
              Professor(EmailB, Last_, Rank2, CourseY),
              Professor(EmailC, First_, Empty, Empty)}, MaxRepoRows)

RepoLogins ==
    SeqsUpTo({LoginUser(EmailA, T(encrypt(Welcome).s), RoleP),
              LoginUser(EmailB, T(encrypt(<<>>).s), RoleP),
              LoginUser(EmailC, T(encrypt(<<233>>).s), Empty)}, MaxRepoRows)

CipherPasswords == SeqsUpTo(PwChars, MaxPwLen) \cup {Welcome, NewPass, LongPw1, LongPw2}

\* a service and its client
Next ==
    \/ /\ suite = "students"
       /\ \/ \E s \in StudentsAdded :
                Room(students, MaxStudents, "email_address", s) /\ add_student(s)
          \/ \E e \in {EmailA, EmailB} : delete_student(e)
          \/ \E e \in {EmailA, EmailB} : \E u \in StudentUpdates : update_student(e, u)
          \/ \E k \in SortKeys : \E r \in BOOLEAN : sort_students(k, r)
          \/ \E e \in {EmailA, EmailB} : report_by_student(e)
    \/ /\ suite = "reports"
       /\ \/ \E s \in ReportedAdded :
                Room(students, MaxReported, "email_address", s) /\ add_student(s)
          \/ \E k \in {"marks", "email_address"} : \E r \in BOOLEAN : sort_students(k, r)
          \/ \E c \in {CourseX, CourseY} : stats_for_course(c)
    \/ /\ suite = "courses"
       /\ \/ \E c \in CoursesAdded :
                Room(courses, MaxCourses, "course_id", c) /\ add_course(c)
          \/ \E c \in {CourseX, CourseY} : delete_course(c)
          \/ \E c \in {CourseX, CourseY} : \E u \in CourseUpdates : update_course(c, u)
    \/ /\ suite = "professors"
       /\ \/ \E p \in ProfessorsAdded :
                Room(professors, MaxProfessors, "professor_id", p) /\ add_professor(p)
          \/ \E p \in {EmailA, EmailB} : delete_professor(p)
          \/ \E p \in {EmailA, EmailB} : \E u \in ProfessorUpdates : update_professor(p, u)
    \/ /\ suite = "logins"
       /\ \/ \E u \in UserIds \cup {Empty} : \E p \in Passwords : register_user(u, p, RoleP)
          \/ \E u \in UserIds : \E p \in Passwords \cup {Wrong} : login(u, p)
          \/ \E u \in UserIds : \E p \in Passwords : change_password(u, p)

\* ---- "two": students and courses through two service objects ----
TwoStudents ==
    {Student(EmailA, First_, Last_, CourseX, GradeA, PyFloat(96000)),
     Student(EmailB, First_, Last_, CourseX, GradeA, PyFloat(90000))}

\* two services constructed over the same files, and their client
NextTwo ==
    \/ /\ suite = "two"
       /\ \/ \E s \in TwoStudents :
                Room(students, MaxStudents, "email_address", s) /\ add_student(s)
          \/ \E e \in {EmailA, EmailB} : delete_student(e)
          \/ \E e \in {EmailA, EmailB} : update_student(e, <<<<"grade", GradeB>>>>)
          \/ add_course(Course(CourseX, Desc1, Empty, PyInt(3)))
          \/ use_other

\* CSVRepo's static methods called on a file
NextRepo ==
    \/ /\ suite = "repo_students"
       /\ (repo_load_students \/ \E l \in RepoStudents : repo_save_students(l))
    \/ /\ suite = "repo_courses"
       /\ (repo_load_courses \/ \E l \in RepoCourses : repo_save_courses(l))
    \/ /\ suite = "repo_professors"
       /\ (repo_load_professors \/ \E l \in RepoProfessors : repo_save_professors(l))
    \/ /\ suite = "repo_logins"
       /\ (repo_load_logins \/ \E l \in RepoLogins : repo_save_logins(l))

\* CIPHER called directly
NextCipher ==
    \/ /\ suite = "cipher"
       /\ \/ \E p \in CipherPasswords : cipher_encrypt(p)
          \/ \E c \in BadCiphertexts \cup {last.out : x \in {0}} :
                last.op \in {"init", "encrypt"} /\ cipher_decrypt(c)

InitService == Init /\ suite \in ServiceSuites
InitRepo    == Init /\ suite \in RepoSuites
InitCipher  == Init /\ suite = "cipher"
InitTwo     == Init /\ suite = "two"

\* a service constructed over files that hold no record
InitFresh   == /\ InitService
               /\ students = <<>> /\ courses = <<>> /\ professors = <<>> /\ logins = <<>>

Spec       == InitService /\ [][Next]_vars
SpecRepo   == InitRepo /\ [][NextRepo]_vars
SpecCipher == InitCipher /\ [][NextCipher]_vars
SpecFresh  == InitFresh /\ [][Next]_vars
SpecTwo    == InitTwo /\ [][NextTwo]_vars

(***************************************************************************)
(* Properties.                                                             *)
(***************************************************************************)
\* the outcome of an add of rec to list (afterwards list2, its file before
\* and after file and file2) as the call last' reports it
AddOutcome(list, list2, file, file2, id, rec) ==
    IF rec[id] = Empty \/ \E i \in 1..Len(list) : list[i][id] = rec[id]
    THEN last'.ret = "ValueError" /\ list2 = list /\ file2 = file
    ELSE last'.ret = "None" /\ list2 = Append(list, rec)

\* C1: an add (add_student, add_course, add_professor, register_user) whose
\* identifier is empty or is the identifier of a record of the collection
\* raises ValueError and leaves the collection and the file as they were;
\* any other add appends the record at the end of the collection.
C1_AddContract ==
    [][ /\ last'.op = "add_student" =>
              AddOutcome(students, students', students_csv, students_csv',
                         "email_address", last'.args[1])
        /\ last'.op = "add_course" =>
              AddOutcome(courses, courses', courses_csv, courses_csv',
                         "course_id", last'.args[1])
        /\ last'.op = "add_professor" =>
              AddOutcome(professors, professors', professors_csv, professors_csv',
                         "professor_id", last'.args[1])
        /\ last'.op = "register_user" =>
              IF last'.args[1] = Empty
                 \/ \E i \in 1..Len(logins) : logins[i].user_id = last'.args[1]
              THEN last'.ret = "ValueError" /\ logins' = logins /\ login_csv' = login_csv
              ELSE /\ last'.ret = "None"
                   /\ Len(logins') = Len(logins) + 1
                   /\ SubSeq(logins', 1, Len(logins)) = logins
                   /\ logins'[Len(logins')].user_id = last'.args[1]
                   /\ logins'[Len(logins')].role = last'.args[3]
      ]_vars

\* a second add of an e-mail address was refused: the student added first is
\* still the only one of that address
C1_DuplicateRefused ==
    /\ last.op = "add_student" /\ last.ret = "ValueError"
    /\ last.args[1].email_address = EmailA
    /\ Len(students) = 2
    /\ students[1].email_address = EmailA

\* C3: login(id, p) returns True exactly when a user of that id exists and p
\* is the password register_user or the latest change_password set for it;
\* it returns False otherwise and never raises.
C3_LoginIffLatestPassword ==
    last.op = "login" =>
        LET id == last.args[1]
            p  == last.args[2]
        IN /\ last.ret \in {"True", "False"}
           /\ last.ret = "True" <=>
                 /\ \E i \in 1..Len(logins) : logins[i].user_id = id
                 /\ pwset[id.s].set
                 /\ pwset[id.s].pw = p

\* after change_password(a, "NewP@ss1") the login with the password of the
\* registration fails
C3_OldPasswordFails ==
    /\ last.op = "login" /\ last.ret = "False"
    /\ last.args = <<EmailA, Welcome>>
    /\ pwset[EmailA.s] = SetPassword(NewPass, "change_password")
    /\ \E i \in 1..Len(logins) : logins[i].user_id = EmailA

\* equal as field values: the same text, both None, or the same number
SameValue(a, b) ==
    \/ a.k = "str" /\ b.k = "str" /\ a.s = b.s
    \/ a.k = "None" /\ b.k = "None"
    \/ IsFinite(a) /\ IsFinite(b) /\ Milli(a) = Milli(b)

\* the same records in the same order
SameRecords(xs, ys) ==
    /\ Len(xs) = Len(ys)
    /\ \A i \in 1..Len(xs) : \A f \in DOMAIN xs[i] : SameValue(xs[i][f], ys[i][f])

\* C4: a load that follows a save of N records (text fields, finite marks,
\* credits an integer or None) returns N records in the saved order, every
\* field equal to the saved one: marks as a number, credits as an integer or
\* None.
C4_SaveLoadRoundTrip ==
    [][ /\ last.op = "save_students" /\ last'.op = "load_students" =>
              /\ SameRecords(last.args[1], last'.out)
              /\ \A i \in 1..Len(last'.out) : last'.out[i].marks.k = "float"
        /\ last.op = "save_courses" /\ last'.op = "load_courses" =>
              /\ SameRecords(last.args[1], last'.out)
              /\ \A i \in 1..Len(last'.out) :
                    last'.out[i].credits.k = last.args[1][i].credits.k
        /\ last.op = "save_professors" /\ last'.op = "load_professors" =>
              SameRecords(last.args[1], last'.out)
        /\ last.op = "save_logins" /\ last'.op = "load_logins" =>
              SameRecords(last.args[1], last'.out)
      ]_vars

\* two students were saved and loaded again, one with the marks -1.25 and one
\* whose int marks 96 are in the file as "96"
C4_TwoStudentsLoaded ==
    /\ last.op = "load_students" /\ Len(last.out) = 2
    /\ last.out[1].marks = PyFloat(-1250)
    /\ last.out[2].marks = PyFloat(96000)
    /\ students_csv.rows[2][6] = <<57, 54>>

\* C5: decrypt(encrypt(p)) = p for every password p, the empty one and ones
\* longer than the key included, and two different passwords never have the
\* same ciphertext (encrypt is a function of p and the fixed key).
C5_CipherRoundTrip ==
    [][ /\ last.op = "encrypt" /\ last'.op = "decrypt" /\ last'.args[1] = last.out =>
              last.ret = "None" /\ last'.ret = "None" /\ last'.out = last.args[1]
        /\ last.op = "encrypt" /\ last'.op = "encrypt" /\ last'.args # last.args =>
              last'.out # last.out
      ]_vars

\* the ciphertext of a password of 17 characters was decrypted to it
C5_LongPasswordDecrypted ==
    /\ last.op = "decrypt" /\ last.ret = "None"
    /\ last.out = LongPw1
    /\ Len(last.out) > Len(CipherKey)

\* C2: after every completed add, delete, update, sort_students,
\* register_user or change_password, loading the file of each entity type
\* gives the collection in memory: the same records in the same order with
\* the same field values.
C2_MemoryEqualsFile ==
    (/\ last.op \in {"add_student", "delete_student", "update_student", "sort_students",
                     "add_course", "delete_course", "update_course",
                     "add_professor", "delete_professor", "update_professor",
                     "register_user", "change_password"}
     /\ last.ret \in {"None", "True", "False"})
    => /\ SameRecords(students, load_students(students_csv))
       /\ SameRecords(courses, load_courses(courses_csv))
       /\ SameRecords(professors, load_professors(professors_csv))
       /\ SameRecords(logins, load_logins(login_csv))

\* b is a rearrangement of a: every record is in both as many times
IsPermutationOf(a, b) ==
    /\ Len(a) = Len(b)
    /\ \A x \in Range(a) \cup Range(b) :
          Cardinality({i \in 1..Len(a) : a[i] = x}) = Cardinality({i \in 1..Len(b) : b[i] = x})

\* no record is before one that the order puts before it
Ordered(list, key, reverse) ==
    \A i, j \in 1..Len(list) :
        i < j => IF reverse THEN ~PyLt(list[i][key], list[j][key])
                 ELSE ~PyLt(list[j][key], list[i][key])

\* C6: sort_students(key, reverse) that returns leaves a permutation of the
\* collection, non-decreasing in the key (non-increasing for reverse), and
\* the file holds the records in that order.
C6_SortContract ==
    [][ last'.op = "sort_students" /\ last'.ret = "None" =>
            /\ IsPermutationOf(students, students')
            /\ Ordered(students', last'.args[1], last'.args[2])
            /\ Len(students_csv'.rows) = Len(students')
            /\ \A i \in 1..Len(students') :
                  students_csv'.rows[i][1] = students'[i].email_address.s
      ]_vars

\* the k-th smallest of the numbers (thousandths) of a non-empty sequence
KthSmallest(ms, k) ==
    CHOOSE v \in Range(ms) :
        /\ Cardinality({i \in 1..Len(ms) : ms[i] < v}) < k
        /\ Cardinality({i \in 1..Len(ms) : ms[i] <= v}) >= k

\* C7: stats_for_course(c) returns 0.0 and 0.0 when no student has the
\* course; otherwise the average is the sum of the marks of the students of
\* that course over their count and the median the middle of these marks
\* sorted (the mean of the two middle ones for an even count), both to the
\* third decimal; the call changes no collection and no file.
C7_StatsContract ==
    [][ last'.op = "stats_for_course" =>
            LET of == {i \in 1..Len(students) : students[i].course_id = last'.args[1]}
                n  == Cardinality(of)
                ms == MarksOf(students, last'.args[1])
                mm == [i \in 1..Len(ms) |-> Milli(ms[i])]
            IN /\ UNCHANGED <<students, courses, professors, logins, students_csv,
                              courses_csv, professors_csv, login_csv>>
               /\ last'.ret = "None"
               /\ IF n = 0 THEN last'.out = Stats(PyFloat(0), PyFloat(0))
                  ELSE /\ Len(ms) = n
                       /\ \A i \in of : IsFinite(students[i].marks)
                       /\ last'.out.average.k = "float"
                       /\ 2 * Abs(last'.out.average.n * n - SumMilli(ms)) <= n
                       /\ last'.out.median.k = "float"
                       /\ IF n % 2 = 1
                          THEN last'.out.median.n = KthSmallest(mm, (n + 1) \div 2)
                          ELSE Abs(2 * last'.out.median.n
                                   - (KthSmallest(mm, n \div 2) + KthSmallest(mm, (n \div 2) + 1))) <= 1
      ]_vars

\* C8: in every state of the service the marks of every student are a finite
\* number, and no call raised because of marks.
C8_MarksFinite ==
    /\ \A i \in 1..Len(students) : IsFinite(students[i].marks)
    /\ last.ret # "TypeError"

\* C9: in every state of the service the credits of every course are an int
\* or None, and no update_course raised.
C9_CreditsIntOrNone ==
    /\ \A i \in 1..Len(courses) : courses[i].credits.k \in {"int", "None"}
    /\ last.op = "update_course" => last.ret \in {"True", "False"}

\* the file a load sees has every expected column
HasEveryColumn(file, headers) ==
    file.state # "missing" /\ file.header # <<>> /\ Range(headers) \subseteq Range(file.header)

\* the outcome of a load of file (afterwards file2) as the property puts it:
\* rewritten to the header row alone exactly when kept does not hold
LoadOutcome(file, file2, headers, kept) ==
    IF kept THEN file2 = file /\ Len(last'.out) = Len(file.rows)
    ELSE file2 = CsvTable(headers, <<>>) /\ last'.out = <<>>

UniqueIds(list, id) ==
    \A i, j \in 1..Len(list) : list[i][id] = list[j][id] => i = j

\* C11: starting from files without records, after any sequence of add,
\* update, delete, sort, register_user and change_password calls no two
\* records of a collection have the same identifier, so that a delete by
\* identifier removes at most one record.
C11_IdentifiersUnique ==
    [][ /\ UniqueIds(students', "email_address")
        /\ UniqueIds(courses', "course_id")
        /\ UniqueIds(professors', "professor_id")
        /\ UniqueIds(logins', "user_id")
        /\ last'.op = "delete_student" => Len(students') >= Len(students) - 1
        /\ last'.op = "delete_course" => Len(courses') >= Len(courses) - 1
        /\ last'.op = "delete_professor" => Len(professors') >= Len(professors) - 1
      ]_vars

\* the outcome of a delete by identifier on list (afterwards list2, its file
\* before and after file and file2) as the call last' reports it
DeleteOutcome(list, list2, file, file2, id) ==
    LET v       == last'.args[1]
        had     == \E i \in 1..Len(list) : list[i][id] = v
        keep(x) == x[id] # v
    IN /\ last'.ret = IF had THEN "True" ELSE "False"
       /\ list2 = SelectSeq(list, keep)
       /\ ~had => list2 = list /\ file2 = file

\* C12: a delete by identifier (students, courses, professors) returns True
\* exactly when a record of that identifier was in the collection; it removes
\* every such record and keeps the others in their order; when it returns
\* False the collection and the file are as before; report_by_student finds
\* a record exactly when one of that e-mail address is in the collection, so
\* none after a delete of it that returned True.
C12_DeleteContract ==
    [][ /\ last'.op = "delete_student" =>
              DeleteOutcome(students, students', students_csv, students_csv', "email_address")
        /\ last'.op = "delete_course" =>
              DeleteOutcome(courses, courses', courses_csv, courses_csv', "course_id")
        /\ last'.op = "delete_professor" =>
              DeleteOutcome(professors, professors', professors_csv, professors_csv',
                            "professor_id")
        /\ last'.op = "report_by_student" =>
              /\ last'.out = PyNone <=>
                    ~\E i \in 1..Len(students) : students[i].email_address = last'.args[1]
              /\ (last.op = "delete_student" /\ last.ret = "True" /\ last.args = last'.args)
                    => last'.out = PyNone
      ]_vars

\* the student a was deleted and the student b, who came after, is left
C12_OneOfTwoDeleted ==
    /\ last.op = "delete_student" /\ last.ret = "True"
    /\ last.args[1] = EmailA
    /\ Len(students) = 1
    /\ students[1].email_address = EmailB
    /\ Len(students_csv.rows) = 1

\* the field f, given the value v, holds w: marks a finite float (the number
\* given, if one was), credits an int (the one given, if one was) or None,
\* any other field the value itself
FieldTakes(f, v, w) ==
    CASE f = "marks"   -> w.k = "float" /\ (IsFinite(v) => w.n = Milli(v))
      [] f = "credits" -> w.k \in {"int", "None"} /\ (v.k = "int" => w = v)
      [] OTHER         -> w = v

\* the record new is old with the fields of the updates set
Updated(old, new, updates) ==
    \A f \in DOMAIN old :
        IF \E j \in 1..Len(updates) : updates[j][1] = f
        THEN \A j \in 1..Len(updates) : updates[j][1] = f => FieldTakes(f, updates[j][2], new[f])
        ELSE new[f] = old[f]

\* the outcome of an update by identifier on list (afterwards list2, its file
\* before and after file and file2) as the call last' reports it
UpdateOutcome(list, list2, file, file2, id) ==
    LET at == {i \in 1..Len(list) : list[i][id] = last'.args[1]}
    IN IF at = {}
       THEN last'.ret = "False" /\ list2 = list /\ file2 = file
       ELSE /\ last'.ret = "True"
            /\ Len(list2) = Len(list)
            /\ \A i \in 1..Len(list) :
                  IF i = First(at) THEN Updated(list[i], list2[i], last'.args[2])
                  ELSE list2[i] = list[i]

\* C13: an update by identifier (students, courses, professors) returns True
\* exactly when a record of that identifier exists; then the first such
\* record has the given fields that exist set to their coerced values and
\* nothing else is changed, no other record, nor the length or the order,
\* and a report_by_student of that identifier shows the new values; when it
\* returns False the collection and the file are as before.
C13_UpdateContract ==
    [][ /\ last'.op = "update_student" =>
              UpdateOutcome(students, students', students_csv, students_csv', "email_address")
        /\ last'.op = "update_course" =>
              UpdateOutcome(courses, courses', courses_csv, courses_csv', "course_id")
        /\ last'.op = "update_professor" =>
              UpdateOutcome(professors, professors', professors_csv, professors_csv',
                            "professor_id")
        /\ (/\ last.op = "update_student" /\ last.ret = "True"
            /\ last'.op = "report_by_student" /\ last'.args[1] = last.args[1]) =>
              /\ last'.out # PyNone
              /\ \A j \in 1..Len(last.args[2]) :
                    last.args[2][j][1] \in DOMAIN last'.out =>
                        FieldTakes(last.args[2][j][1], last.args[2][j][2],
                                   last'.out[last.args[2][j][1]])
      ]_vars

\* the record r is among the loaded ones
Among(r, loaded) ==
    \E i \in 1..Len(loaded) : SameRecords(<<r>>, <<loaded[i]>>)

\* the step is a call on the active service that wrote the students file
StudentsWritten ==
    /\ active' = active
    /\ \/ last'.op = "add_student" /\ last'.ret = "None"
       \/ last'.op \in {"delete_student", "update_student"} /\ last'.ret = "True"

\* C14 as stated: with two services over the same files, a record added
\* through one of them is not in the students file once the other has made
\* its next mutation of the students.
C14_AsStated ==
    [][ StudentsWritten =>
            LET loaded == load_students(students_csv')
            IN \A i \in 1..Len(other.students) : ~Among(other.students[i], loaded)
      ]_vars

\* C14: with two services over the same files, a call that writes the
\* students file (an add that returns, a delete or update that returns
\* True) leaves in it the collection of the service that was called and
\* nothing else: a record added through the other service is in the file
\* afterwards only if the service called holds an equal record itself; a
\* mutation of another entity type leaves the students file as it was.
C14_LastRewriteWins ==
    [][ /\ StudentsWritten =>
              LET loaded == load_students(students_csv')
              IN /\ SameRecords(students', loaded)
                 /\ \A i \in 1..Len(other.students) :
                       Among(other.students[i], loaded)
                           <=> \E j \in 1..Len(students') : students'[j] = other.students[i]
        /\ (active' = active /\ last'.op = "add_course") => students_csv' = students_csv
      ]_vars

\* the student a was added through A, then b through B: the file holds b
\* alone, and A still holds a
C14_UpdateLost ==
    /\ active = "B"
    /\ last.op = "add_student" /\ last.ret = "None" /\ last.args[1].email_address = EmailB
    /\ Len(other.students) = 1 /\ other.students[1].email_address = EmailA
    /\ Len(students) = 1 /\ students[1].email_address = EmailB
    /\ ~Among(other.students[1], load_students(students_csv))
    /\ Len(students_csv.rows) = 1

====
